---- MODULE Spec2Model ----
(***************************************************************************)
(* PPOAgent (src/agent/ppo.py): the multi-epoch minibatch update loop and  *)
(* the loss functions it optimizes.                                        *)
(*                                                                         *)
(* Spec      the update loop: update / update_step as a state machine.     *)
(*           Loss values come out of the actor and value networks, which   *)
(*           are outside this file; the loop carries each loss as a term   *)
(*           naming the minibatch and the parameter version it was         *)
(*           computed from.                                                *)
(* LossSpec  the loss functions on concrete numbers (exact arithmetic;     *)
(*           floating-point rounding is not modelled).                     *)
(***************************************************************************)
EXTENDS Integers, Sequences, FiniteSets, TLC

\* ------------------------------------------------------------------ bounds
MaxN == 3            \* samples in a rollout buffer: size * num_envs <= MaxN
MaxEpochs == 2       \* update_epochs in 0..MaxEpochs
MaxMiniBatch == 3    \* mini_batch_size in 1..MaxMiniBatch
MaxUpdates == 2      \* calls of update in one behaviour
MaxBatch == 2        \* samples in a batch given to a loss function

\* ------------------------------------------------------- python helpers
Min(a, b) == IF a <= b THEN a ELSE b
Max(a, b) == IF a >= b THEN a ELSE b

\* s[a:b] of a Python sequence, 0 <= a <= b: the end is clamped to len(s)
\* (SliceOverlaps: the faulty slice that starts one element early)
SliceOverlaps(s, a, b) == SubSeq(s, Max(a, 1), Min(b, Len(s)))
Slice(s, a, b) == SubSeq(s, a + 1, Min(b, Len(s)))

\* np.arange(n)
arange(n) == [i \in 1..n |-> i - 1]

\* the outcomes of np.random.shuffle(s): every reordering of s
Shuffles(s) ==
    { [i \in 1..Len(s) |-> s[p[i]]] :
        p \in { q \in [1..Len(s) -> 1..Len(s)] :
                  \A i, j \in 1..Len(s) : q[i] = q[j] => i = j } }

\* the loop test of `for start in range(0, stop, step)`, step >= 1
\* (InRangeWholeOnly: the faulty test that drops a trailing partial step)
InRangeWholeOnly(start, stop, step) == start + step <= stop
InRange(start, stop, step) == start < stop

\* np.mean(xs) of a list of loss terms: nan for the empty list
np_mean(xs) == IF xs = <<>> THEN "nan" ELSE [mean_of |-> xs]

\* ----------------------------------------------------------- the buffer
\* PPOReplayBuffer as update sees it: size steps of num_envs environments,
\* one stored sample per (step, env).
Buffers ==
    { [size |-> s, num_envs |-> n] :
        s \in 0..MaxN, n \in 1..MaxN }

BuffersInBound == { b \in Buffers : b.size * b.num_envs <= MaxN }

\* buffer.make_dataset(): the stored samples flattened to one row per
\* sample, size * num_envs rows
make_dataset(b) ==
    [i \in 1..(b.size * b.num_envs) |->
        [step |-> (i - 1) \div b.num_envs, env |-> (i - 1) % b.num_envs]]

\* dataset[minibatch_idx]: indexing by an index array copies the rows
Take(dataset, idx) == [k \in 1..Len(idx) |-> dataset[idx[k] + 1]]

VARIABLES
    clip_range,       \* self.clip_range, in units of 1 / One
    value_clip_range, \* self.value_clip_range: <<>> for None, else << c >>
    value_coef,       \* self.value_coef, in hundredths
    entropy_coef,     \* self.entropy_coef, in hundredths
    update_epochs,    \* self.update_epochs
    mini_batch_size,  \* self.mini_batch_size
    train_step,       \* self.train_step
    params,           \* version of self.parameters: optimizer steps applied
    params_nan,       \* a NaN gradient has been applied to the parameters
    grad,             \* the .grad of self.parameters
    pc,               \* "idle", "epoch" (at the for e), "minibatch" (at the for start)
    buffer,           \* the buffer argument of the running update
    dataset,          \* the six tensors returned by make_dataset
    buffer_size,
    indices,
    e,
    start,
    policy_losses,
    value_losses,
    entropy_losses,
    result,           \* what update returned; "none" while it runs
    calls,            \* optimizer protocol calls of the last update_step
    applied,          \* the gradient the last optimizer.step() used
    batches,          \* history: minibatch_idx of each update_step of this epoch
    update_steps,     \* history: update_step calls of this update
    dataset_calls,    \* history: make_dataset calls of this update
    entry_train_step, \* history: train_step when this update was called
    entry_dataset,    \* history: the dataset as make_dataset returned it
    entry_buffer,     \* history: the buffer as update received it
    updates,          \* history: update calls so far
    call              \* the last loss computation: its inputs and its result

vars ==
    << update_epochs, mini_batch_size, train_step, params, params_nan, grad, pc,
       buffer, dataset, buffer_size, indices, e, start, policy_losses,
       value_losses, entropy_losses, result, calls, applied, batches,
       update_steps, dataset_calls, entry_train_step, entry_dataset,
       entry_buffer, updates, clip_range, value_clip_range, value_coef,
       entropy_coef, call >>

hyper ==
    << update_epochs, mini_batch_size, clip_range, value_clip_range,
       value_coef, entropy_coef >>
history ==
    << update_steps, dataset_calls, entry_train_step, entry_dataset,
       entry_buffer, updates >>


\* ------------------------------------------------------------ numbers
\* Tensors are sequences of integers. Ratios and clip ranges are counted in
\* units of 1 / One; log-probabilities in units of ln 2, so that exp is
\* exact on them. A scalar result is a fraction num / den (den > 0), or NaN
\* (exact arithmetic: rounding and overflow to inf are left out).
One == 20

RECURSIVE GCD(_, _)
GCD(a, b) == IF b = 0 THEN a ELSE GCD(b, a % b)

Abs(x) == IF x < 0 THEN -x ELSE x

\* the fraction n / d, d > 0, in lowest terms
R(n, d) ==
    LET g == GCD(Abs(n), d)
    IN  [num |-> n \div g, den |-> d \div g, nan |-> FALSE]
NaN == [num |-> 0, den |-> 1, nan |-> TRUE]

RNeg(a) == IF a.nan THEN NaN ELSE R(-a.num, a.den)
RAdd(a, b) ==
    IF a.nan \/ b.nan THEN NaN
    ELSE R(a.num * b.den + b.num * a.den, a.den * b.den)
RMul(a, b) == IF a.nan \/ b.nan THEN NaN ELSE R(a.num * b.num, a.den * b.den)
REq(a, b) == ~a.nan /\ ~b.nan /\ a.num * b.den = b.num * a.den
RLt(a, b) == ~a.nan /\ ~b.nan /\ a.num * b.den < b.num * a.den
RLe(a, b) == ~a.nan /\ ~b.nan /\ a.num * b.den <= b.num * a.den

RECURSIVE Sum(_)
Sum(xs) == IF xs = <<>> THEN 0 ELSE Head(xs) + Sum(Tail(xs))

\* torch.mean(xs) of a tensor counted in units of 1 / unit
Mean(xs, unit) == IF xs = <<>> THEN NaN ELSE R(Sum(xs), Len(xs) * unit)

\* torch.exp(k ln 2) = 2^k, in units of 1 / One (exact for k >= -2)
Exp(k) == IF k >= 0 THEN One * 2^k ELSE One \div 2^(-k)

\* torch.clamp(x, lo, hi) = min(max(x, lo), hi)
clamp(x, lo, hi) == Min(Max(x, lo), hi)

\* ------------------------------------------------------ loss functions
\* get_clipped_surrogate_loss(log_prob, old_log_prob, advantage)
\* (get_clipped_surrogate_loss_unclipped: the plain policy-gradient loss)
get_clipped_surrogate_loss_unclipped(log_prob, old_log_prob, advantage) ==
    LET ratio == [i \in DOMAIN log_prob |-> Exp(log_prob[i] - old_log_prob[i])]
        pg_loss1 == [i \in DOMAIN log_prob |-> advantage[i] * ratio[i]]
    IN  RNeg(Mean(pg_loss1, One))
get_clipped_surrogate_loss(log_prob, old_log_prob, advantage) ==
    LET log_ratio == [i \in DOMAIN log_prob |-> log_prob[i] - old_log_prob[i]]
        ratio == [i \in DOMAIN log_prob |-> Exp(log_ratio[i])]
        pg_loss1 == [i \in DOMAIN log_prob |-> advantage[i] * ratio[i]]
        pg_loss2 == [i \in DOMAIN log_prob |->
                       advantage[i]
                         * clamp(ratio[i], One - clip_range, One + clip_range)]
    IN  RNeg(Mean([i \in DOMAIN log_prob |-> Min(pg_loss1[i], pg_loss2[i])],
                  One))

\* lines 114-120 of get_value_loss: value_clipped
\* (value_clipped_to_old: the faulty else branch that takes old_value)
value_clipped_to_old(value, old_value) ==
    IF value_clip_range # <<>>
    THEN [i \in DOMAIN value |->
            clamp(value[i], old_value[i] - value_clip_range[1],
                  old_value[i] + value_clip_range[1])]
    ELSE old_value
value_clipped(value, old_value) ==
    IF value_clip_range # <<>>
    THEN [i \in DOMAIN value |->
            clamp(value[i], old_value[i] - value_clip_range[1],
                  old_value[i] + value_clip_range[1])]
    ELSE value

\* get_value_loss(value, old_value, returns)
get_value_loss(value, old_value, returns) ==
    LET clipped == value_clipped(value, old_value)
        vf_loss1 == [i \in DOMAIN value |-> (value[i] - returns[i]) ^ 2]
        vf_loss2 == [i \in DOMAIN value |-> (clipped[i] - returns[i]) ^ 2]
        vf_loss == [i \in DOMAIN value |-> Min(vf_loss1[i], vf_loss2[i])]
    IN  Mean(vf_loss, 1)

\* get_entropy_loss(entropy)
\* (get_entropy_loss_positive: the sign forgotten)
get_entropy_loss_positive(entropy) == Mean(entropy, 1)
get_entropy_loss(entropy) == RNeg(Mean(entropy, 1))

\* line 141: the outcomes of (advantage - mean) / (std + 1e-8). NaN on
\* fewer than 2 samples (unbiased std); otherwise a positive multiple of
\* advantage - mean: zero sum, each value with the sign of its centered
\* advantage, equal advantages giving equal values. The multiple (1 / std,
\* a square root) is left open here.
Sign(x) == IF x > 0 THEN 1 ELSE IF x < 0 THEN -1 ELSE 0

normalized(advantage) ==
    IF Len(advantage) < 2
    THEN { [nan |-> TRUE, values |-> advantage] }
    ELSE { [nan |-> FALSE, values |-> y] :
             y \in { z \in [DOMAIN advantage -> -2..2] :
                       /\ Sum(z) = 0
                       /\ \A i \in DOMAIN advantage :
                            Sign(z[i]) =
                              Sign(Len(advantage) * advantage[i] - Sum(advantage))
                       /\ \A i, j \in DOMAIN advantage :
                            advantage[i] = advantage[j] => z[i] = z[j] } }

\* line 152: loss = policy_loss + value_coef * value_loss
\*                  + entropy_coef * entropy_loss
total_loss(policy_loss, value_loss, entropy_loss) ==
    RAdd(policy_loss,
         RAdd(RMul(R(value_coef, 100), value_loss),
              RMul(R(entropy_coef, 100), entropy_loss)))

\* lines 138-152 and 163-165 of update_step on numbers: batch is the
\* minibatch's old_log_prob, old_value, advantage and returns, adv the
\* normalized advantage, net what get_new_log_prob_entropy_value returned.
\* Gives the loss that is back-propagated and the returned dict.
update_step_losses(batch, adv, net) ==
    LET policy_loss ==
            IF adv.nan THEN NaN
            ELSE get_clipped_surrogate_loss(net.log_prob, batch.old_log_prob,
                                            adv.values)
        value_loss == get_value_loss(net.value, batch.old_value, batch.returns)
        entropy_loss == get_entropy_loss(net.entropy)
    IN  [loss |-> total_loss(policy_loss, value_loss, entropy_loss),
         ret_dict |-> [policy_loss |-> policy_loss,
                       value_loss |-> value_loss,
                       entropy_loss |-> entropy_loss]]

\* --------------------------------------------------------- update_step
\* max_norm of nn.utils.clip_grad_norm_, in tenths
MaxGradNormTenths == 5

\* advantage.std() is the unbiased estimator: NaN on fewer than 2 samples,
\* and so is the normalized advantage
advantage_nan(batch) == Len(batch) < 2

\* The losses of one minibatch as terms: which loss, of which rows, under
\* which parameter version, and whether the value is NaN. The policy loss
\* reads the normalized advantage; the value and entropy losses do not.
LossTerm(name, batch, st, nan) ==
    [loss |-> name, batch |-> batch, params |-> st.params, nan |-> nan]

get_losses(st, batch) ==
    [policy_loss  |-> LossTerm("policy_loss", batch, st,
                               st.params_nan \/ advantage_nan(batch)),
     value_loss   |-> LossTerm("value_loss", batch, st, st.params_nan),
     entropy_loss |-> LossTerm("entropy_loss", batch, st, st.params_nan)]

\* self.optimizer.zero_grad()
\* (zero_grad_skipped: the call made, the gradients left as they were)
zero_grad_skipped(st) == [st EXCEPT !.calls = Append(@, "zero_grad")]
zero_grad(st) ==
    [st EXCEPT !.grad = [from |-> {}, max_norm |-> "inf", nan |-> FALSE],
               !.calls = Append(@, "zero_grad")]

\* loss.backward(): the gradient of the loss at the current parameters is
\* added to .grad
backward(st, losses) ==
    [st EXCEPT !.grad = [from |-> @.from \cup {st.params},
                         max_norm |-> "inf",
                         nan |-> @.nan \/ losses.policy_loss.nan
                                       \/ losses.value_loss.nan
                                       \/ losses.entropy_loss.nan],
               !.calls = Append(@, "backward")]

\* nn.utils.clip_grad_norm_(self.parameters, 0.5)
clip_grad_norm_(st) ==
    [st EXCEPT !.grad.max_norm = MaxGradNormTenths,
               !.calls = Append(@, "clip_grad_norm_")]

\* self.optimizer.step()
optimizer_step(st) ==
    [st EXCEPT !.applied = st.grad,
               !.params = @ + 1,
               !.params_nan = @ \/ st.grad.nan,
               !.calls = Append(@, "step")]

\* self.train_step += 1
train_step_inc(st) == [st EXCEPT !.train_step = @ + 1]

\* update_step(batch): the agent after the call and the returned dict
update_step(st, batch) ==
    LET losses == get_losses(st, batch)
        s0 == [st EXCEPT !.calls = <<>>]
        s1 == zero_grad(s0)
        s2 == backward(s1, losses)
        s3 == clip_grad_norm_(s2)
        s4 == optimizer_step(s3)
    IN  [agent |-> train_step_inc(s4), ret_dict |-> losses]

\* the agent's optimization state as one record
Agent ==
    [train_step |-> train_step, params |-> params, params_nan |-> params_nan,
     grad |-> grad, calls |-> calls, applied |-> applied]

SetAgent(a) ==
    /\ train_step' = a.train_step
    /\ params' = a.params
    /\ params_nan' = a.params_nan
    /\ grad' = a.grad
    /\ calls' = a.calls
    /\ applied' = a.applied

agentVars == << train_step, params, params_nan, grad, calls, applied >>

\* ---------------------------------------------------------------- Init
NoGrad == [from |-> {}, max_norm |-> "inf", nan |-> FALSE]

NoCall == [fn |-> "none"]

Constructed ==
    /\ train_step = 0
    /\ params = 0
    /\ params_nan = FALSE
    /\ grad = NoGrad
    /\ pc = "idle"
    /\ buffer = [size |-> 0, num_envs |-> 1]
    /\ dataset = <<>>
    /\ buffer_size = 0
    /\ indices = <<>>
    /\ e = 0
    /\ start = 0
    /\ policy_losses = <<>>
    /\ value_losses = <<>>
    /\ entropy_losses = <<>>
    /\ result = "none"
    /\ calls = <<>>
    /\ applied = NoGrad
    /\ batches = <<>>
    /\ update_steps = 0
    /\ dataset_calls = 0
    /\ entry_train_step = 0
    /\ entry_dataset = <<>>
    /\ entry_buffer = [size |-> 0, num_envs |-> 1]
    /\ updates = 0
    /\ call = NoCall

\* the agent as constructed with the default loss hyperparameters
\* (clip_range 0.2, value_clip_range None, value_coef 0.5, entropy_coef 0.01)
Init ==
    /\ Constructed
    /\ update_epochs \in 0..MaxEpochs
    /\ mini_batch_size \in 1..MaxMiniBatch
    /\ clip_range = One \div 5
    /\ value_clip_range = <<>>
    /\ value_coef = 50
    /\ entropy_coef = 1

\* -------------------------------------------------------------- update
\* what the epoch loop does to the rollout data: nothing. The buffer and the
\* dataset are only read (lines 177-202 hold no call on buffer and no store
\* into the six tensors). (rollout_remade: make_dataset called again at
\* every step of the loop.)
rollout_remade ==
    /\ dataset' = make_dataset(buffer)
    /\ dataset_calls' = dataset_calls + 1
    /\ UNCHANGED << buffer, buffer_size >>
rollout_unchanged == UNCHANGED << buffer, dataset, buffer_size, dataset_calls >>

\* line 195: if e == self.update_epochs - 1
\* (is_every_epoch: the test left out)
is_every_epoch(ep, epochs) == TRUE
is_final_epoch(ep, epochs) == ep = epochs - 1

\* lines 168-175: update(buffer) up to the first `for e`
update(b) ==
    /\ pc = "idle"
    /\ updates < MaxUpdates
    /\ policy_losses' = <<>>
    /\ value_losses' = <<>>
    /\ entropy_losses' = <<>>
    /\ buffer' = b
    /\ buffer_size' = b.size * b.num_envs
    /\ indices' = arange(b.size * b.num_envs)
    /\ dataset' = make_dataset(b)
    /\ dataset_calls' = 1
    /\ entry_dataset' = make_dataset(b)
    /\ entry_buffer' = b
    /\ e' = 0
    /\ start' = 0
    /\ batches' = <<>>
    /\ update_steps' = 0
    /\ entry_train_step' = train_step
    /\ updates' = updates + 1
    /\ result' = "none"
    /\ pc' = "epoch"
    /\ UNCHANGED << hyper, agentVars, call >>

\* lines 177-180: one more epoch: shuffle, then enter the minibatch loop
\* (which is empty when buffer_size = 0)
epoch ==
    /\ pc = "epoch"
    /\ e < update_epochs
    /\ \E shuffled \in Shuffles(indices) : indices' = shuffled
    /\ batches' = <<>>
    /\ IF InRange(0, buffer_size, mini_batch_size)
       THEN /\ start' = 0
            /\ e' = e
            /\ pc' = "minibatch"
       ELSE /\ start' = start
            /\ e' = e + 1
            /\ pc' = "epoch"
    /\ rollout_unchanged
    /\ UNCHANGED << hyper, agentVars, policy_losses, value_losses,
                    entropy_losses, result, update_steps, entry_train_step,
                    entry_dataset, entry_buffer, updates, call >>

\* lines 181-198: the body of the minibatch loop, then the loop's advance
minibatch ==
    /\ pc = "minibatch"
    /\ LET end == start + mini_batch_size
           minibatch_idx == Slice(indices, start, end)
           batch == Take(dataset, minibatch_idx)
           r == update_step(Agent, batch)
           last == is_final_epoch(e, update_epochs)
       IN  /\ SetAgent(r.agent)
           /\ policy_losses' =
                IF last THEN Append(policy_losses, r.ret_dict.policy_loss)
                        ELSE policy_losses
           /\ value_losses' =
                IF last THEN Append(value_losses, r.ret_dict.value_loss)
                        ELSE value_losses
           /\ entropy_losses' =
                IF last THEN Append(entropy_losses, r.ret_dict.entropy_loss)
                        ELSE entropy_losses
           /\ batches' = Append(batches, minibatch_idx)
           /\ update_steps' = update_steps + 1
           /\ IF InRange(end, buffer_size, mini_batch_size)
              THEN /\ start' = end
                   /\ e' = e
                   /\ pc' = "minibatch"
              ELSE /\ start' = start
                   /\ e' = e + 1
                   /\ pc' = "epoch"
    /\ rollout_unchanged
    /\ UNCHANGED << hyper, indices, result, entry_train_step, entry_dataset,
                    entry_buffer, updates, call >>

\* lines 200-202: the epochs are over: return the means
return ==
    /\ pc = "epoch"
    /\ e >= update_epochs
    /\ result' = [policy_loss  |-> np_mean(policy_losses),
                  value_loss   |-> np_mean(value_losses),
                  entropy_loss |-> np_mean(entropy_losses)]
    /\ pc' = "idle"
    /\ rollout_unchanged
    /\ UNCHANGED << hyper, agentVars, indices, e, start, policy_losses,
                    value_losses, entropy_losses, batches, update_steps,
                    entry_train_step, entry_dataset, entry_buffer, updates,
                    call >>

Next ==
    \/ \E b \in BuffersInBound : update(b)
    \/ epoch
    \/ minibatch
    \/ return

Spec == Init /\ [][Next]_vars


\* ================================================== claims on the loop
\* ceil(n / d) for n >= 0, d >= 1
CeilDiv(n, d) == (n + d - 1) \div d

\* N = buffer.size * buffer.num_envs of the running (or last) update
N == buffer.size * buffer.num_envs

Returned == pc = "idle" /\ updates > 0

\* how often sample index i was handed to update_step in this epoch
Uses(i) ==
    Cardinality({ jk \in (DOMAIN batches) \X (1..MaxN + 2) :
                    /\ jk[2] <= Len(batches[jk[1]])
                    /\ batches[jk[1]][jk[2]] = i })

\* the minibatch loop of an epoch has run to its end
EpochOver == updates > 0 /\ pc \in {"epoch", "idle"} /\ e >= 1

\* C1: one call of update on a buffer of N samples makes exactly
\* update_epochs * ceil(N / mini_batch_size) calls of update_step and raises
\* train_step by exactly that number; while it runs, train_step has risen by
\* the number of update_step calls made so far.
C1_StepCount ==
    /\ updates > 0 => train_step - entry_train_step = update_steps
    /\ Returned =>
         /\ update_steps = update_epochs * CeilDiv(N, mini_batch_size)
         /\ train_step =
              entry_train_step + update_epochs * CeilDiv(N, mini_batch_size)

C1_Witness ==
    /\ Returned
    /\ updates = 2
    /\ entry_train_step > 0
    /\ N = 3
    /\ mini_batch_size = 2
    /\ update_epochs = 2
    /\ train_step = entry_train_step + 4

\* C2: in every epoch the minibatches partition the sample indices 0..N-1:
\* while the epoch runs no index has been used twice and only indices of
\* the dataset are used, and when it is over every index was used exactly
\* once, whatever the shuffle and whether or not mini_batch_size divides N.
C2_Partition ==
    /\ \A j \in DOMAIN batches : \A k \in DOMAIN batches[j] :
         batches[j][k] \in 0..(N - 1)
    /\ \A i \in 0..(N - 1) : Uses(i) <= 1
    /\ EpochOver => \A i \in 0..(N - 1) : Uses(i) = 1

C2_Witness ==
    /\ EpochOver
    /\ pc = "epoch"
    /\ N = 3
    /\ mini_batch_size = 2
    /\ batches = << <<2, 0>>, <<1>> >>

\* C3: the rollout data is fixed for the whole of an update: make_dataset
\* has been called exactly once, the buffer and the dataset are what they
\* were at that call, and every recorded loss was computed from rows of
\* that dataset.
C3_FixedRollout ==
    updates > 0 =>
        /\ dataset_calls = 1
        /\ buffer = entry_buffer
        /\ dataset = entry_dataset
        /\ \A k \in DOMAIN policy_losses :
             /\ k <= Len(batches)
             /\ policy_losses[k].batch = Take(entry_dataset, batches[k])
             /\ value_losses[k].batch = Take(entry_dataset, batches[k])
             /\ entropy_losses[k].batch = Take(entry_dataset, batches[k])

C3_Witness ==
    /\ pc = "epoch"
    /\ e = 2
    /\ N = 3
    /\ mini_batch_size = 2
    /\ indices # arange(3)
    /\ params > entry_train_step
    /\ Len(policy_losses) = 2
    /\ dataset = entry_dataset
    /\ dataset_calls = 1

\* C8: every update_step runs zero_grad, backward, clip_grad_norm_ and
\* optimizer.step once each in that order and then adds 1 to train_step;
\* the gradient the optimizer applies is the gradient of this minibatch's
\* loss alone (nothing left over from an earlier backward), clipped to
\* norm 0.5.
C8_OptimizerProtocol ==
    train_step > 0 =>
        /\ calls = << "zero_grad", "backward", "clip_grad_norm_", "step" >>
        /\ applied.from = {params - 1}
        /\ applied.max_norm = MaxGradNormTenths
        /\ params = train_step

C8_Witness ==
    /\ train_step = 3
    /\ calls = << "zero_grad", "backward", "clip_grad_norm_", "step" >>
    /\ applied.from = {2}
    /\ applied.max_norm = MaxGradNormTenths

LastEpochTerm(name, k) ==
    [loss |-> name,
     batch |-> Take(dataset, batches[k]),
     params |-> entry_train_step
                  + (update_epochs - 1) * CeilDiv(N, mini_batch_size) + k - 1]

SameTerm(t, u) == t.loss = u.loss /\ t.batch = u.batch /\ t.params = u.params

\* C9: update returns the means of the losses of the final epoch only.
\* Before the final epoch nothing is recorded; on return, for
\* update_epochs >= 1 and N >= 1, each list holds ceil(N / mini_batch_size)
\* entries, entry k being the loss of minibatch k of the last epoch under
\* the parameters of that moment; for update_epochs = 0 or N = 0 the lists
\* are empty and the means are nan.
C9_FinalEpochLosses ==
    /\ (updates > 0 /\ pc # "idle" /\ e < update_epochs - 1) =>
         /\ policy_losses = <<>>
         /\ value_losses = <<>>
         /\ entropy_losses = <<>>
    /\ Returned =>
         /\ Len(policy_losses) =
              IF update_epochs >= 1 /\ N >= 1
              THEN CeilDiv(N, mini_batch_size) ELSE 0
         /\ Len(value_losses) = Len(policy_losses)
         /\ Len(entropy_losses) = Len(policy_losses)
         /\ \A k \in DOMAIN policy_losses :
              /\ SameTerm(policy_losses[k], LastEpochTerm("policy_loss", k))
              /\ SameTerm(value_losses[k], LastEpochTerm("value_loss", k))
              /\ SameTerm(entropy_losses[k], LastEpochTerm("entropy_loss", k))
         /\ result = [policy_loss  |-> np_mean(policy_losses),
                      value_loss   |-> np_mean(value_losses),
                      entropy_loss |-> np_mean(entropy_losses)]
         /\ (update_epochs = 0 \/ N = 0) =>
              result = [policy_loss |-> "nan", value_loss |-> "nan",
                        entropy_loss |-> "nan"]

C9_Witness ==
    /\ Returned
    /\ update_epochs = 2
    /\ N = 3
    /\ mini_batch_size = 2
    /\ Len(policy_losses) = 2
    /\ policy_losses[1].params = entry_train_step + 2
    /\ result.policy_loss = [mean_of |-> policy_losses]

\* C10: for N >= 2 and mini_batch_size >= 2 every minibatch handed to
\* update_step holds at least 2 samples, so the normalized advantage is
\* never NaN and no NaN reaches the parameters.
C10_MinibatchHasTwoSamples ==
    (N >= 2 /\ mini_batch_size >= 2) =>
        /\ \A j \in DOMAIN batches : Len(batches[j]) >= 2
        /\ ~params_nan


\* ============================================ the loss functions alone
\* The loss functions read the hyperparameters and their arguments and
\* write nothing, so a behaviour constructs an agent and makes one call.
\* the input tensors of n samples
Tensors(values, n) == [1..n -> values]

BatchSizes == 1..MaxBatch

LossInit ==
    /\ Constructed
    /\ update_epochs = MaxEpochs
    /\ mini_batch_size = MaxMiniBatch
    /\ clip_range \in {0, One \div 5, One + One \div 2}
    /\ value_clip_range \in {<<>>, <<1>>}
    /\ value_coef \in {50, 100}
    /\ entropy_coef \in {0, 1}

loopVars ==
    << agentVars, pc, buffer, dataset, buffer_size, indices, e, start,
       policy_losses, value_losses, entropy_losses, result, batches, history >>

\* a call of get_clipped_surrogate_loss
surrogate_call ==
    /\ call = NoCall
    /\ \E n \in BatchSizes :
      \E log_prob \in Tensors({-1, 0}, n), old_log_prob \in Tensors({-1, 0}, n),
         advantage \in Tensors({-2, 0, 3}, n) :
        /\ call' = [fn |-> "get_clipped_surrogate_loss",
                    log_prob |-> log_prob, old_log_prob |-> old_log_prob,
                    advantage |-> advantage,
                    ret |-> get_clipped_surrogate_loss(log_prob, old_log_prob,
                                                       advantage)]
        /\ UNCHANGED << hyper, loopVars >>

\* a call of get_value_loss
value_call ==
    /\ call = NoCall
    /\ \E n \in BatchSizes :
      \E value \in Tensors({-1, 0, 2}, n), old_value \in Tensors({0, 1}, n),
         returns \in Tensors({0, 1}, n) :
        /\ call' = [fn |-> "get_value_loss",
                    value |-> value, old_value |-> old_value,
                    returns |-> returns,
                    ret |-> get_value_loss(value, old_value, returns)]
        /\ UNCHANGED << hyper, loopVars >>

\* a call of get_entropy_loss
entropy_call ==
    /\ call = NoCall
    /\ \E n \in BatchSizes :
      \E entropy \in Tensors({0, 1, 3}, n) :
        /\ call' = [fn |-> "get_entropy_loss", entropy |-> entropy,
                    ret |-> get_entropy_loss(entropy)]
        /\ UNCHANGED << hyper, loopVars >>

\* the loss computation of a call of update_step
update_step_call ==
    /\ call = NoCall
    /\ \E n \in BatchSizes :
      \E log_prob \in Tensors({-1, 0}, n), advantage \in Tensors({0, 1}, n),
         value \in Tensors({0, 2}, n), entropy \in Tensors({0, 1}, n) :
        LET batch == [old_log_prob |-> [i \in 1..n |-> 0],
                      old_value |-> [i \in 1..n |-> 0],
                      advantage |-> advantage,
                      returns |-> [i \in 1..n |-> 1]]
            net == [log_prob |-> log_prob, entropy |-> entropy, value |-> value]
        IN  \E adv \in normalized(advantage) :
              /\ call' = [fn |-> "update_step", batch |-> batch, adv |-> adv,
                          net |-> net,
                          out |-> update_step_losses(batch, adv, net)]
              /\ UNCHANGED << hyper, loopVars >>

LossNext ==
    \/ surrogate_call
    \/ value_call
    \/ entropy_call
    \/ update_step_call

LossSpec == LossInit /\ [][LossNext]_vars


\* ======================================== claims on the loss functions
\* both NaN, or the same number
RSame(a, b) == (a.nan /\ b.nan) \/ REq(a, b)

\* the mean squared error of value against returns
MSE(value, returns) ==
    R(Sum([i \in DOMAIN value |-> (value[i] - returns[i]) ^ 2]), Len(value))

C4_Ratio(i) == Exp(call.log_prob[i] - call.old_log_prob[i])

C4_Term(i) ==
    IF call.advantage[i] >= 0
    THEN call.advantage[i] * Min(C4_Ratio(i), One + clip_range)
    ELSE call.advantage[i] * Max(C4_Ratio(i), One - clip_range)

\* C4: get_clipped_surrogate_loss returns the negated mean of the per-sample
\* term, which is A * min(r, 1 + clip_range) for A >= 0 and
\* A * max(r, 1 - clip_range) for A < 0, with r = exp(log_prob - old_log_prob);
\* the term is never greater than A * r, and is A when log_prob = old_log_prob
\* (clip_range >= 0).
C4_ClippedSurrogate ==
    call.fn = "get_clipped_surrogate_loss" =>
        LET idx == DOMAIN call.log_prob
            n == Len(call.log_prob)
        IN  /\ REq(call.ret, R(-Sum([i \in idx |-> C4_Term(i)]), n * One))
            /\ \A i \in idx : C4_Term(i) <= call.advantage[i] * C4_Ratio(i)
            /\ RLe(R(-Sum([i \in idx |-> call.advantage[i] * C4_Ratio(i)]),
                     n * One),
                   call.ret)
            /\ n = 1 =>
                 /\ RLe(RNeg(call.ret), R(call.advantage[1] * C4_Ratio(1), One))
                 /\ call.log_prob = call.old_log_prob =>
                      REq(RNeg(call.ret), R(call.advantage[1], 1))
            /\ call.log_prob = call.old_log_prob =>
                 REq(call.ret, R(-Sum(call.advantage), n))

C4_Witness ==
    /\ call.fn = "get_clipped_surrogate_loss"
    /\ clip_range = One \div 5
    /\ call.log_prob = <<0, -1>>
    /\ call.old_log_prob = <<-1, 0>>
    /\ call.advantage = <<3, -2>>
    /\ REq(call.ret, R(-1, 1))

\* C5: with value_clip_range set, get_value_loss is the mean of the larger
\* of (value - returns)^2 and (value_clipped - returns)^2, value_clipped
\* being value clipped to old_value -+ value_clip_range, and so is never
\* smaller than the mean squared error of value against returns.
C5_ClippedValueLossIsPessimistic ==
    (call.fn = "get_value_loss" /\ value_clip_range # <<>>) =>
        LET idx == DOMAIN call.value
            c == value_clip_range[1]
            clipped == [i \in idx |->
                          Min(Max(call.value[i], call.old_value[i] - c),
                              call.old_value[i] + c)]
            worse == [i \in idx |->
                        Max((call.value[i] - call.returns[i]) ^ 2,
                            (clipped[i] - call.returns[i]) ^ 2)]
        IN  /\ REq(call.ret, R(Sum(worse), Len(call.value)))
            /\ RLe(MSE(call.value, call.returns), call.ret)

\* C6: with value_clip_range None, get_value_loss is the mean squared error
\* of value against returns, whatever old_value is.
C6_PlainValueLoss ==
    (call.fn = "get_value_loss" /\ value_clip_range = <<>>) =>
        /\ REq(call.ret, MSE(call.value, call.returns))
        /\ \A other \in Tensors({-3, 0, 1}, Len(call.value)) :
             get_value_loss(call.value, other, call.returns) = call.ret

C6_Witness ==
    /\ call.fn = "get_value_loss"
    /\ value_clip_range = <<>>
    /\ call.value = <<2, -1>>
    /\ call.old_value = <<0, 1>>
    /\ call.returns = <<0, 1>>
    /\ REq(call.ret, R(4, 1))

C7_Expected(policy_loss, value_loss, entropy) ==
    RAdd(policy_loss,
         RAdd(RMul(R(value_coef, 100), value_loss),
              RMul(R(entropy_coef, 100), R(-Sum(entropy), Len(entropy)))))

\* C7: update_step optimizes policy_loss + value_coef * value_loss
\* + entropy_coef * entropy_loss with entropy_loss = -mean(entropy), and
\* returns the three losses as the loss functions gave them, not weighted;
\* with entropy_coef > 0 and everything else equal, a larger mean entropy
\* gives a strictly smaller loss.
C7_TotalLoss ==
    call.fn = "update_step" =>
        LET got == call.out.ret_dict
            policy_loss ==
                IF call.adv.nan THEN NaN
                ELSE get_clipped_surrogate_loss(
                         call.net.log_prob, call.batch.old_log_prob,
                         call.adv.values)
            value_loss ==
                get_value_loss(call.net.value, call.batch.old_value,
                               call.batch.returns)
        IN  /\ RSame(got.policy_loss, policy_loss)
            /\ REq(got.value_loss, value_loss)
            /\ REq(got.entropy_loss,
                   R(-Sum(call.net.entropy), Len(call.net.entropy)))
            /\ RSame(call.out.loss,
                     C7_Expected(policy_loss, value_loss, call.net.entropy))
            /\ (entropy_coef > 0 /\ ~call.out.loss.nan) =>
                 \A more \in Tensors({0, 2}, Len(call.net.entropy)) :
                   Sum(more) > Sum(call.net.entropy) =>
                     LET out == update_step_losses(
                                  call.batch, call.adv,
                                  [call.net EXCEPT !.entropy = more])
                     IN  /\ RLt(out.loss, call.out.loss)
                         /\ REq(out.ret_dict.policy_loss, got.policy_loss)
                         /\ REq(out.ret_dict.value_loss, got.value_loss)

C7_Witness ==
    /\ call.fn = "update_step"
    /\ entropy_coef = 1
    /\ value_coef = 50
    /\ clip_range = One \div 5
    /\ call.net.log_prob = <<0, -1>>
    /\ call.net.value = <<2, 0>>
    /\ call.net.entropy = <<1, 0>>
    /\ call.adv.values = <<2, -2>>
    /\ REq(call.out.ret_dict.entropy_loss, R(-1, 2))
    /\ ~call.out.loss.nan

====
